---------------------------- MODULE Spec2Model ----------------------------
(***************************************************************************)
(* GitHubArtifactDatabase (hypothesis/extra/github_actions.py): a          *)
(* read-only example database that lazily downloads a GitHub Actions       *)
(* artifact into a local directory and then delegates reads to             *)
(* DirectoryBasedExampleDatabase.                                          *)
(*                                                                         *)
(* One database instance is shared by the callers in Threads.  A caller    *)
(* is either outside the object ("idle") or at one statement of            *)
(* _fetch_artifact / fetch.  The class holds no lock, so the statements of *)
(* different callers interleave freely (SpecConcurrent); Spec is the same  *)
(* program driven by a single caller.                                      *)
(***************************************************************************)
EXTENDS Integers, Sequences, FiniteSets, TLC

\* ------------------------------------------------------------- bounds

NThreads == 2
MaxArtifacts == 3
MaxTime == 2
MaxCalls == 2
NKeys == 2

\* ---------------------------------------------------------- constants

Threads == 1..NThreads
MainThread == 1
Keys == 1..NKeys
\* The keys a caller asks for: those of the archives and one (0) that no
\* archive and no directory holds.
FetchKeys == 0..NKeys
Times == 1..MaxTime

None == "None"
Owner == "user"
Repo == "repo"
LocalPath == ".hypothesis/ci"
Tokens == {None, "ghp_tok"}

DefaultArtifactName == "hypofuzz-example-db"
Names == {DefaultArtifactName, "other"}

\* Status codes the GitHub API answers a GET with once redirects are followed.
Statuses == {200, 404, 500}

\* ------------------------------------------------------------- state

VARIABLES
    token,          \* self.token
    artifact_name,  \* self.artifact_name
    downloaded,     \* self._artifact_downloaded
    delegate,       \* root of the DirectoryBasedExampleDatabase part, or None
    dir,            \* the directory self.path on disk
    pc,             \* per caller: the statement it is at
    artifacts,      \* per caller: local `artifacts`
    artifact,       \* per caller: local `artifact`
    tmp,            \* per caller: its NamedTemporaryFile
    lastReq,        \* per caller: the last request of its current call
    dirAtCall,      \* per caller: the directory as its current call found it
    result,         \* per caller: what its last call returned or raised
    sent,           \* every request handed to requests.get so far
    listCalls,      \* number of listing requests
    downloadCalls,  \* number of download requests
    unpackCalls,    \* number of shutil.unpack_archive calls
    failedFetches   \* number of _fetch_artifact calls that raised

vars == <<token, artifact_name, downloaded, delegate, dir, pc, artifacts,
          artifact, tmp, lastReq, dirAtCall, result, sent, listCalls, downloadCalls,
          unpackCalls, failedFetches>>

config == <<token, artifact_name>>
cacheState == <<downloaded, config, delegate>>
locals == <<artifacts, artifact>>
counters == <<listCalls, downloadCalls, unpackCalls, failedFetches>>
network == <<sent, listCalls, downloadCalls>>
filesystem == <<dir, tmp, unpackCalls>>

\* ------------------------------------------------- artifact descriptors

Descriptor(n, c, u) == [name |-> n, created_at |-> c, archive_download_url |-> u]
NoArtifact == [name |-> None, created_at |-> 0, archive_download_url |-> 0]

\* A listing response: up to MaxArtifacts descriptors; each has its own URL.
Listings ==
    UNION { { [i \in 1..n |-> Descriptor(f[i][1], f[i][2], i)] :
                f \in [1..n -> Names \X Times] } : n \in 0..MaxArtifacts }


\* ------------------------------------------- selection (lines 98-102)

\* filter(lambda a: a["name"] == self.artifact_name, artifacts)
NameMatches(a, name) == a.name = name

FilterByName(as, name) == SelectSeq(as, LAMBDA a : NameMatches(a, name))

\* One insertion of Python's stable sort: x, which came after every element
\* of the sorted prefix in the input, goes behind the elements whose key is
\* not greater than its own.
InsertByCreatedAt(sorted, x) ==
    LET keep == { i \in 1..Len(sorted) : sorted[i].created_at <= x.created_at }
        k == Cardinality(keep)
    IN  SubSeq(sorted, 1, k) \o <<x>> \o SubSeq(sorted, k + 1, Len(sorted))

\* sorted(..., key=lambda a: a["created_at"])
RECURSIVE SortedByCreatedAt(_)
SortedByCreatedAt(as) ==
    IF as = <<>> THEN <<>>
    ELSE InsertByCreatedAt(SortedByCreatedAt(SubSeq(as, 1, Len(as) - 1)),
                           as[Len(as)])

\* sorted(filter(...), key=...)
Candidates(as, name) == SortedByCreatedAt(FilterByName(as, name))

\* [0]: the oldest candidate instead of the newest.
FirstOf(s) == s[1]

\* [-1]
LastOf(s) == s[Len(s)]

\* ------------------------------------------------------------- errors

\* raise RuntimeError(msg) from cause
RuntimeError(msg, cause) == [cls |-> "RuntimeError", msg |-> msg, cause |-> cause]

\* An exception the code does not catch reaches the caller as it was raised.
Uncaught(cls) == [cls |-> cls, msg |-> "", cause |-> None]

MsgListConnect == "Could not connect to GitHub to get the latest artifact."
MsgListHTTP == "Could not get the latest artifact from GitHub. Check that the repository exists and that you've provided a valid token (GITHUB_TOKEN)."
MsgDownloadConnect == "Could not connect to GitHub to download the artifact."
MsgDownloadHTTP == "Could not get the latest artifact from GitHub. Check that the repository exists and that you've provided a valid token (GITHUB_TOKEN)."
MsgReadOnly == "This database is read-only. Please wrap this class with ReadOnlyDatabase, i.e. ReadOnlyDatabase(GitHubArtifactsDatabase(...))."

Raised(e) == [kind |-> "raised", error |-> e]
Returned(v) == [kind |-> "returned", value |-> v]
\* What fetch(key) returned.
ReturnedFor(key, v) == [kind |-> "returned", key |-> key, value |-> v]
NoResult == [kind |-> "none"]

\* ----------------------------------------------------------- requests

\* Response.raise_for_status(): HTTPError for a 4xx or 5xx status.
RaisesForStatus(status) == 400 <= status /\ status < 600

\* f"Bearer {self.token}"
Bearer(tok) == <<"Bearer", tok>>

ListingHeaders(tok) ==
    [Accept |-> "application/vnd.github+json",
     Version |-> "2022-11-28 ",
     Authorization |-> Bearer(tok)]

DownloadHeaders(tok) ==
    [Accept |-> "application/vnd.github+json",
     Version |-> "2022-11-28",
     Authorization |-> Bearer(tok)]

ListingRequest(tok) ==
    [method |-> "GET", endpoint |-> "artifacts", url |-> 0,
     headers |-> ListingHeaders(tok)]

DownloadRequest(tok, a) ==
    [method |-> "GET", endpoint |-> "archive", url |-> a.archive_download_url,
     headers |-> DownloadHeaders(tok)]

\* What the transport did with a caller's request: no HTTP response at all
\* (requests.exceptions.ConnectionError), or a response with a status.
NoRequest == [endpoint |-> None, connected |-> FALSE, status |-> 0]
NoResponse(endpoint) == [endpoint |-> endpoint, connected |-> FALSE, status |-> 0]
Response(endpoint, status) == [endpoint |-> endpoint, connected |-> TRUE, status |-> status]

\* --------------------------------------------------------- filesystem

\* The archive behind a download URL: one file per key, holding a value that
\* names the artifact it came from.
ArchiveEntries(url) == [k \in Keys |-> <<k, url>>]

\* The first n members that unpacking has written.
Extracted(url, n) == { ArchiveEntries(url)[k] : k \in 1..n }

StaleEntry == <<1, 0>>

NoDir == [exists |-> FALSE, files |-> {}]
Dir(files) == [exists |-> TRUE, files |-> files]

\* mkdir_p(path): create if absent, no error if present.
MkdirP(d) == IF d.exists THEN d ELSE Dir({})

\* tempfile.NamedTemporaryFile(): content 0 is the empty file, otherwise the
\* URL whose archive was written to it.
NoTmp == [exists |-> FALSE, content |-> 0]
TmpFile(content) == [exists |-> TRUE, content |-> content]

\* DirectoryBasedExampleDatabase.fetch(key) over a root directory.
LocalStoreFetch(d, key) == { e[2] : e \in { f \in d.files : f[1] = key } }


\* --------------------------------------------------------------- Init

InitDirs == {NoDir, Dir({}), Dir({StaleEntry})}

Init ==
    /\ token \in Tokens
    /\ artifact_name = DefaultArtifactName
    /\ downloaded = FALSE
    /\ delegate = None
    /\ dir \in InitDirs
    /\ pc = [t \in Threads |-> "idle"]
    /\ artifacts = [t \in Threads |-> <<>>]
    /\ artifact = [t \in Threads |-> NoArtifact]
    /\ tmp = [t \in Threads |-> NoTmp]
    /\ lastReq = [t \in Threads |-> NoRequest]
    /\ dirAtCall = [t \in Threads |-> dir]
    /\ result = [t \in Threads |-> NoResult]
    /\ sent = {}
    /\ listCalls = 0
    /\ downloadCalls = 0
    /\ unpackCalls = 0
    /\ failedFetches = 0

\* ------------------------------------------------------ control flow

\* The temporary file is created with delete=False and outlives the exception.
Raise_LeavesTmp(t, e) ==
    /\ pc' = [pc EXCEPT ![t] = "idle"]
    /\ result' = [result EXCEPT ![t] = Raised(e)]
    /\ tmp' = tmp
    /\ artifacts' = [artifacts EXCEPT ![t] = <<>>]
    /\ artifact' = [artifact EXCEPT ![t] = NoArtifact]
    /\ failedFetches' = failedFetches + 1

\* A failed download falls back to whatever the directory already holds: the
\* exception is swallowed and fetch goes on to the delegate.
Raise_FallsBackToLocal(t, e) ==
    /\ pc' = [pc EXCEPT ![t] = "delegate"]
    /\ result' = result
    /\ tmp' = [tmp EXCEPT ![t] = NoTmp]
    /\ artifacts' = [artifacts EXCEPT ![t] = <<>>]
    /\ artifact' = [artifact EXCEPT ![t] = NoArtifact]
    /\ failedFetches' = failedFetches + 1

\* An exception leaves _fetch_artifact and fetch: the with block, if entered,
\* deletes the temporary file, the locals die, the caller sees the exception.
Raise(t, e) ==
    /\ pc' = [pc EXCEPT ![t] = "idle"]
    /\ result' = [result EXCEPT ![t] = Raised(e)]
    /\ tmp' = [tmp EXCEPT ![t] = NoTmp]
    /\ artifacts' = [artifacts EXCEPT ![t] = <<>>]
    /\ artifact' = [artifact EXCEPT ![t] = NoArtifact]
    /\ failedFetches' = failedFetches + 1

Goto(t, label) == pc' = [pc EXCEPT ![t] = label]

\* The flag is never consulted: every fetch downloads again.
NeverDownloaded == FALSE

\* if self._artifact_downloaded: return
AlreadyDownloaded == downloaded

\* fetch(key) is entered and _fetch_artifact tests the flag (lines 137-138, 72-73).
FetchCall(t) ==
    /\ pc[t] = "idle"
    /\ AlreadyDownloaded \/ listCalls < MaxCalls
    /\ Goto(t, IF AlreadyDownloaded THEN "delegate" ELSE "list")
    /\ result' = [result EXCEPT ![t] = NoResult]
    /\ lastReq' = [lastReq EXCEPT ![t] = NoRequest]
    /\ dirAtCall' = [dirAtCall EXCEPT ![t] = dir]
    /\ UNCHANGED <<cacheState, dir, locals, tmp, sent, counters>>

\* ------------------------------------------ listing request (75-96)

SendListing(t) ==
    /\ sent' = sent \cup {ListingRequest(token)}
    /\ listCalls' = listCalls + 1

\* The two except clauses of the listing request with their messages swapped.
ListConnectionError_WrongMessage(t) ==
    /\ pc[t] = "list"
    /\ SendListing(t)
    /\ lastReq' = [lastReq EXCEPT ![t] = NoResponse("artifacts")]
    /\ Raise(t, RuntimeError(MsgListHTTP, "ConnectionError"))
    /\ UNCHANGED <<cacheState, dir, downloadCalls, unpackCalls>>
    /\ UNCHANGED dirAtCall

\* requests.get raises ConnectionError.
ListConnectionError(t) ==
    /\ pc[t] = "list"
    /\ SendListing(t)
    /\ lastReq' = [lastReq EXCEPT ![t] = NoResponse("artifacts")]
    /\ Raise(t, RuntimeError(MsgListConnect, "ConnectionError"))
    /\ UNCHANGED <<cacheState, dir, downloadCalls, unpackCalls>>
    /\ UNCHANGED dirAtCall

\* res.raise_for_status() raises HTTPError.
ListHTTPError(t) ==
    /\ pc[t] = "list"
    /\ \E status \in Statuses :
        /\ RaisesForStatus(status)
        /\ lastReq' = [lastReq EXCEPT ![t] = Response("artifacts", status)]
    /\ SendListing(t)
    /\ Raise(t, RuntimeError(MsgListHTTP, "HTTPError"))
    /\ UNCHANGED <<cacheState, dir, downloadCalls, unpackCalls>>
    /\ UNCHANGED dirAtCall

\* The flag is set as soon as the listing is in, before anything is downloaded.
ListOK_MarksDownloaded(t) ==
    /\ pc[t] = "list"
    /\ \E status \in Statuses, listing \in Listings :
        /\ ~RaisesForStatus(status)
        /\ lastReq' = [lastReq EXCEPT ![t] = Response("artifacts", status)]
        /\ artifacts' = [artifacts EXCEPT ![t] = listing]
    /\ SendListing(t)
    /\ Goto(t, "select")
    /\ downloaded' = TRUE
    /\ UNCHANGED <<config, delegate, dir, artifact, tmp, result, downloadCalls,
                   unpackCalls, failedFetches>>
    /\ UNCHANGED dirAtCall

\* artifacts = res.json()["artifacts"]
ListOK(t) ==
    /\ pc[t] = "list"
    /\ \E status \in Statuses, listing \in Listings :
        /\ ~RaisesForStatus(status)
        /\ lastReq' = [lastReq EXCEPT ![t] = Response("artifacts", status)]
        /\ artifacts' = [artifacts EXCEPT ![t] = listing]
    /\ SendListing(t)
    /\ Goto(t, "select")
    /\ UNCHANGED <<cacheState, dir, artifact, tmp, result, downloadCalls,
                   unpackCalls, failedFetches>>
    /\ UNCHANGED dirAtCall

\* ------------------------------------------------ selection (98-102)

\* sorted(...)[-1] on an empty list
SelectNone(t) ==
    /\ pc[t] = "select"
    /\ Candidates(artifacts[t], artifact_name) = <<>>
    /\ Raise(t, Uncaught("IndexError"))
    /\ UNCHANGED <<cacheState, dir, lastReq, sent, listCalls, downloadCalls,
                   unpackCalls>>
    /\ UNCHANGED dirAtCall

SelectLatest(t) ==
    /\ pc[t] = "select"
    /\ Candidates(artifacts[t], artifact_name) # <<>>
    /\ artifact' = [artifact EXCEPT ![t] = LastOf(Candidates(artifacts[t], artifact_name))]
    /\ Goto(t, "tempfile")
    /\ UNCHANGED <<cacheState, dir, artifacts, tmp, lastReq, result, sent, counters>>
    /\ UNCHANGED dirAtCall


\* ------------------------------------- download and extract (104-132)

\* with tempfile.NamedTemporaryFile() as f:
\* (`artifacts` is not read again after line 102 and is dropped here.)
OpenTempFile(t) ==
    /\ pc[t] = "tempfile"
    /\ tmp' = [tmp EXCEPT ![t] = TmpFile(0)]
    /\ artifacts' = [artifacts EXCEPT ![t] = <<>>]
    /\ Goto(t, "download")
    /\ UNCHANGED <<cacheState, dir, artifact, lastReq, result, sent, counters>>
    /\ UNCHANGED dirAtCall

SendDownload(t) ==
    /\ sent' = sent \cup {DownloadRequest(token, artifact[t])}
    /\ downloadCalls' = downloadCalls + 1

DownloadConnectionError(t) ==
    /\ pc[t] = "download"
    /\ SendDownload(t)
    /\ lastReq' = [lastReq EXCEPT ![t] = NoResponse("archive")]
    /\ Raise(t, RuntimeError(MsgDownloadConnect, "ConnectionError"))
    /\ UNCHANGED <<cacheState, dir, listCalls, unpackCalls>>
    /\ UNCHANGED dirAtCall

\* mkdir_p(self.path) is called before the download request instead of after.
DownloadHTTPError_AfterMkdir(t) ==
    /\ pc[t] = "download"
    /\ \E status \in Statuses :
        /\ RaisesForStatus(status)
        /\ lastReq' = [lastReq EXCEPT ![t] = Response("archive", status)]
    /\ SendDownload(t)
    /\ Raise(t, RuntimeError(MsgDownloadHTTP, "HTTPError"))
    /\ dir' = MkdirP(dir)
    /\ UNCHANGED <<cacheState, listCalls, unpackCalls>>
    /\ UNCHANGED dirAtCall

DownloadHTTPError(t) ==
    /\ pc[t] = "download"
    /\ \E status \in Statuses :
        /\ RaisesForStatus(status)
        /\ lastReq' = [lastReq EXCEPT ![t] = Response("archive", status)]
    /\ SendDownload(t)
    /\ Raise(t, RuntimeError(MsgDownloadHTTP, "HTTPError"))
    /\ UNCHANGED <<cacheState, dir, listCalls, unpackCalls>>
    /\ UNCHANGED dirAtCall

DownloadOK(t) ==
    /\ pc[t] = "download"
    /\ \E status \in Statuses :
        /\ ~RaisesForStatus(status)
        /\ lastReq' = [lastReq EXCEPT ![t] = Response("archive", status)]
    /\ SendDownload(t)
    /\ Goto(t, "write")
    /\ UNCHANGED <<cacheState, dir, locals, tmp, result, listCalls, unpackCalls,
                   failedFetches>>
    /\ UNCHANGED dirAtCall

\* f.write(req.content)
WriteOK(t) ==
    /\ pc[t] = "write"
    /\ tmp' = [tmp EXCEPT ![t] = TmpFile(artifact[t].archive_download_url)]
    /\ Goto(t, "mkdir")
    /\ UNCHANGED <<cacheState, dir, locals, lastReq, result, sent, counters>>
    /\ UNCHANGED dirAtCall

\* Reading the streamed body or writing it out fails; nothing catches it.
WriteError(t) ==
    /\ pc[t] = "write"
    /\ \E cls \in {"ChunkedEncodingError", "OSError"} : Raise(t, Uncaught(cls))
    /\ UNCHANGED <<cacheState, dir, lastReq, sent, listCalls, downloadCalls,
                   unpackCalls>>
    /\ UNCHANGED dirAtCall

\* mkdir_p(self.path)
MkdirOK(t) ==
    /\ pc[t] = "mkdir"
    /\ dir' = MkdirP(dir)
    /\ Goto(t, "unpack")
    /\ UNCHANGED <<cacheState, locals, tmp, lastReq, result, sent, counters>>
    /\ UNCHANGED dirAtCall

MkdirError(t) ==
    /\ pc[t] = "mkdir"
    /\ ~dir.exists
    /\ Raise(t, Uncaught("OSError"))
    /\ UNCHANGED <<cacheState, dir, lastReq, sent, listCalls, downloadCalls,
                   unpackCalls>>
    /\ UNCHANGED dirAtCall

\* What unpacking n members of the temporary archive leaves in the directory.
UnpackInto(d, archive, n) == Dir(d.files \cup Extracted(archive.content, n))

\* The flag is set right after unpacking; super().__init__ is left out.
UnpackOK_SkipsReinit(t) ==
    /\ pc[t] = "unpack"
    /\ dir.exists
    /\ dir' = UnpackInto(dir, tmp[t], NKeys)
    /\ unpackCalls' = unpackCalls + 1
    /\ tmp' = [tmp EXCEPT ![t] = NoTmp]
    /\ Goto(t, "setflag")
    /\ UNCHANGED <<cacheState, locals, lastReq, result, sent, listCalls,
                   downloadCalls, failedFetches>>
    /\ UNCHANGED dirAtCall

\* shutil.unpack_archive(f.name, self.path, "zip"), then the with block ends.
UnpackOK(t) ==
    /\ pc[t] = "unpack"
    /\ dir.exists
    /\ dir' = UnpackInto(dir, tmp[t], NKeys)
    /\ unpackCalls' = unpackCalls + 1
    /\ tmp' = [tmp EXCEPT ![t] = NoTmp]
    /\ Goto(t, "reinit")
    /\ UNCHANGED <<cacheState, locals, lastReq, result, sent, listCalls,
                   downloadCalls, failedFetches>>
    /\ UNCHANGED dirAtCall

\* unpack_archive raises (not a zip file, I/O error) after writing the first
\* n members.
UnpackError(t) ==
    /\ pc[t] = "unpack"
    /\ dir.exists
    /\ \E n \in 0..(NKeys - 1) : dir' = UnpackInto(dir, tmp[t], n)
    /\ unpackCalls' = unpackCalls + 1
    /\ Raise(t, Uncaught("ReadError"))
    /\ UNCHANGED <<cacheState, lastReq, sent, listCalls, downloadCalls>>
    /\ UNCHANGED dirAtCall

\* ------------------------------------------------- completion (134-135)

\* super().__init__(self.path)
ReinitOK(t) ==
    /\ pc[t] = "reinit"
    /\ delegate' = LocalPath
    /\ Goto(t, "setflag")
    /\ UNCHANGED <<downloaded, config, dir, locals, tmp, lastReq, result, sent,
                   counters>>
    /\ UNCHANGED dirAtCall

ReinitError(t) ==
    /\ pc[t] = "reinit"
    /\ Raise(t, Uncaught("OSError"))
    /\ UNCHANGED <<cacheState, dir, lastReq, sent, listCalls, downloadCalls,
                   unpackCalls>>
    /\ UNCHANGED dirAtCall

\* self._artifact_downloaded = True; _fetch_artifact returns.
SetDownloaded(t) ==
    /\ pc[t] = "setflag"
    /\ downloaded' = TRUE
    /\ artifacts' = [artifacts EXCEPT ![t] = <<>>]
    /\ artifact' = [artifact EXCEPT ![t] = NoArtifact]
    /\ Goto(t, "delegate")
    /\ UNCHANGED <<config, delegate, dir, tmp, lastReq, result, sent, counters>>
    /\ UNCHANGED dirAtCall

\* ------------------------------------------------------ fetch (137-140)

\* The call reads the directory first and only then fetches the artifact: the
\* caller gets what the directory held when the call began.
DelegateFetch_ReadsFirst(t) ==
    /\ pc[t] = "delegate"
    /\ \E key \in FetchKeys :
        result' = [result EXCEPT ![t] =
            IF delegate = None THEN Raised(Uncaught("AttributeError"))
            ELSE ReturnedFor(key, LocalStoreFetch(dirAtCall[t], key))]
    /\ Goto(t, "idle")
    /\ UNCHANGED <<cacheState, dir, locals, tmp, lastReq, sent, counters>>
    /\ UNCHANGED dirAtCall

\* return super().fetch(key)
DelegateFetch(t) ==
    /\ pc[t] = "delegate"
    /\ \E key \in FetchKeys :
        result' = [result EXCEPT ![t] =
            IF delegate = None THEN Raised(Uncaught("AttributeError"))
            ELSE ReturnedFor(key, LocalStoreFetch(dir, key))]
    /\ Goto(t, "idle")
    /\ UNCHANGED <<cacheState, dir, locals, tmp, lastReq, sent, counters>>
    /\ UNCHANGED dirAtCall

\* ------------------------------------------- read-only interface (142-156)

\* The call is passed on to DirectoryBasedExampleDatabase, which writes the
\* value under self.path.
RaiseReadOnly_WritesThrough(t) ==
    /\ dir' = Dir(dir.files \cup {StaleEntry})
    /\ result' = [result EXCEPT ![t] = Returned({})]
    /\ UNCHANGED <<cacheState, pc, locals, tmp, lastReq, sent, counters>>
    /\ UNCHANGED dirAtCall

\* save uploads the value to the repository's artifacts before refusing.
RaiseReadOnly_Uploads(t) ==
    /\ result' = [result EXCEPT ![t] = Raised(RuntimeError(MsgReadOnly, None))]
    /\ sent' = sent \cup {[method |-> "POST", endpoint |-> "artifacts", url |-> 0,
                           headers |-> ListingHeaders(token)]}
    /\ UNCHANGED <<cacheState, dir, pc, locals, tmp, lastReq, counters>>
    /\ UNCHANGED dirAtCall

\* raise RuntimeError("This database is read-only. ...")
RaiseReadOnly(t) ==
    /\ result' = [result EXCEPT ![t] = Raised(RuntimeError(MsgReadOnly, None))]
    /\ UNCHANGED <<cacheState, dir, pc, locals, tmp, lastReq, sent, counters>>
    /\ UNCHANGED dirAtCall

Save(t) ==
    /\ pc[t] = "idle"
    /\ RaiseReadOnly(t)

Move(t) ==
    /\ pc[t] = "idle"
    /\ RaiseReadOnly(t)

Delete(t) ==
    /\ pc[t] = "idle"
    /\ RaiseReadOnly(t)

\* ----------------------------------------------------- __repr__ (68-69)

ReprText == <<"GitHubArtifactDatabase", Owner, Repo, artifact_name>>

\* __repr__ starts the lazy fetch, as fetch does.
Repr_Fetches(t) ==
    /\ pc[t] = "idle"
    /\ AlreadyDownloaded \/ listCalls < MaxCalls
    /\ Goto(t, IF AlreadyDownloaded THEN "idle" ELSE "list")
    /\ result' = [result EXCEPT ![t] = [kind |-> "repr", text |-> ReprText]]
    /\ UNCHANGED <<cacheState, dir, locals, tmp, lastReq, sent, counters>>
    /\ UNCHANGED dirAtCall

Repr(t) ==
    /\ pc[t] = "idle"
    /\ result' = [result EXCEPT ![t] = [kind |-> "repr", text |-> ReprText]]
    /\ UNCHANGED <<cacheState, dir, pc, locals, tmp, lastReq, sent, counters>>
    /\ UNCHANGED dirAtCall

\* ------------------------------------------------------ specification

FetchArtifactStep(t) ==
    \/ ListConnectionError(t)
    \/ ListHTTPError(t)
    \/ ListOK(t)
    \/ SelectNone(t)
    \/ SelectLatest(t)
    \/ OpenTempFile(t)
    \/ DownloadConnectionError(t)
    \/ DownloadHTTPError(t)
    \/ DownloadOK(t)
    \/ WriteOK(t)
    \/ WriteError(t)
    \/ MkdirOK(t)
    \/ MkdirError(t)
    \/ UnpackOK(t)
    \/ UnpackError(t)
    \/ ReinitOK(t)
    \/ ReinitError(t)
    \/ SetDownloaded(t)

\* The steps of a fetch(key) call.
FetchStep(t) ==
    \/ FetchCall(t)
    \/ FetchArtifactStep(t)
    \/ DelegateFetch(t)

Step(t) ==
    \/ FetchStep(t)
    \/ Save(t)
    \/ Move(t)
    \/ Delete(t)
    \/ Repr(t)

\* One caller at a time uses the database: every call runs to its end before
\* the next one starts.
Next == Step(MainThread)

Spec == Init /\ [][Next]_vars

\* Several callers read from the database at once; nothing in the class
\* serialises them.
NextConcurrent == \E t \in Threads : FetchStep(t)

\* The first use on a machine: GITHUB_TOKEN is set and the directory
\* self.path does not exist yet.
InitConcurrent == Init /\ token # None /\ dir = NoDir

SpecConcurrent == InitConcurrent /\ [][NextConcurrent]_vars


\* ============================================================== claims

\* The error taxonomy as the code realises it: every error of the class is a
\* RuntimeError, told apart by its message and its cause.
IsReadOnlyError(e) == e.cls = "RuntimeError" /\ e.msg = MsgReadOnly
IsRemoteUnavailableError(e, msg) ==
    e.cls = "RuntimeError" /\ e.msg = msg /\ e.cause = "ConnectionError"
IsRemoteRequestError(e, msg) ==
    e.cls = "RuntimeError" /\ e.msg = msg /\ e.cause = "HTTPError"
IsArtifactNotFoundError(e) == e.cls = "ArtifactNotFoundError"

RaisedReadOnly(r) == r.kind = "raised" /\ IsReadOnlyError(r.error)

\* The caller's last call was a fetch and it raised.
FetchFailed(t) ==
    /\ pc[t] = "idle"
    /\ result[t].kind = "raised"
    /\ ~IsReadOnlyError(result[t].error)

Success(status) == 200 <= status /\ status < 300

\* The statements of _fetch_artifact behind the listing request.
AfterListing == {"select", "tempfile", "download", "write", "mkdir", "unpack",
                 "reinit", "setflag"}

InFetchArtifact == AfterListing \cup {"list"}

\* ------------------------------------------------------------------ C1
\* C1: save, move and delete can be called in every state in which the caller
\* is outside the object, and each call raises the read-only error, sends no
\* request, changes no file and leaves the downloaded flag, the configuration
\* and the delegate's directory as they were.
C1_WritesAlwaysRejected ==
    /\ [](\A t \in Threads : pc[t] = "idle" =>
            ENABLED Save(t) /\ ENABLED Move(t) /\ ENABLED Delete(t))
    /\ [][\A t \in Threads :
            (Save(t) \/ Move(t) \/ Delete(t)) =>
                /\ RaisedReadOnly(result'[t])
                /\ UNCHANGED <<network, filesystem, cacheState>>]_vars

\* A write was rejected after the artifact had been fetched and unpacked.
C1_Witness ==
    /\ downloaded
    /\ dir.files # {}
    /\ RaisedReadOnly(result[MainThread])

\* ------------------------------------------------------------------ C2
\* C2: downloaded starts false, never goes from true to false, and goes from
\* false to true only in the last statement of a _fetch_artifact call whose
\* delegate has been re-initialised at self.path.
C2_DownloadedMonotone ==
    /\ ~downloaded
    /\ [][/\ downloaded => downloaded'
          /\ (~downloaded /\ downloaded') =>
                \E t \in Threads :
                    /\ pc[t] = "setflag"
                    /\ pc'[t] = "delegate"
                    /\ delegate = LocalPath]_vars

\* The flag is up after an earlier attempt had failed.
C2_Witness == downloaded /\ failedFetches > 0

\* ------------------------------------------------------------------ C3
\* C3 as stated: whatever reads are made, at most one listing request and at
\* most one download request are ever sent.
C3_AtMostOneRoundTrip == listCalls <= 1 /\ downloadCalls <= 1

\* C3 as amended: every listing or download request beyond the first follows a
\* failed fetch attempt (requests <= failed attempts + 1, downloads never more
\* than listings), so without a failure the round trip happens at most once.
C3_OneRoundTripPerAttempt ==
    /\ listCalls <= failedFetches + 1
    /\ downloadCalls <= listCalls
    /\ failedFetches = 0 => C3_AtMostOneRoundTrip

\* A second round trip after a failed one, then reads served without a third.
C3_Witness ==
    /\ downloaded
    /\ failedFetches = 1
    /\ listCalls = 2
    /\ downloadCalls = 2
    /\ pc[MainThread] = "delegate"
    /\ lastReq[MainThread] = NoRequest

\* ------------------------------------------------------------------ C4
\* C4: once downloaded is true, a fetch call goes straight to the delegate's
\* fetch, and no step sends a request, creates the directory, unpacks or
\* touches a temporary file.
C4_NoWorkAfterDownload ==
    [][/\ \A t \in Threads :
            (downloaded /\ pc[t] = "idle" /\ pc'[t] # "idle") => pc'[t] = "delegate"
       /\ downloaded => UNCHANGED <<network, filesystem>>]_vars

\* A read that began with the flag up is about to delegate.
C4_Witness ==
    /\ downloaded
    /\ pc[MainThread] = "delegate"
    /\ lastReq[MainThread] = NoRequest
    /\ result[MainThread] = NoResult
    /\ listCalls = 1

\* ------------------------------------------------------------------ C5
\* C5: a fetch attempt that fails at any statement leaves downloaded false and
\* hands the exception to the caller; the next fetch call starts again at the
\* listing request, and every attempt sends exactly one listing request
\* (listing requests = failed attempts, plus one for the attempt that is past
\* its listing request or has succeeded).
C5_FailureLeavesRetry ==
    /\ [](/\ \A t \in Threads : FetchFailed(t) => ~downloaded
          /\ listCalls = failedFetches +
                (IF downloaded \/ pc[MainThread] \in AfterListing THEN 1 ELSE 0))
    /\ [][\A t \in Threads :
            /\ (pc[t] \in InFetchArtifact /\ failedFetches' # failedFetches) =>
                    /\ pc'[t] = "idle"
                    /\ result'[t].kind = "raised"
                    /\ ~downloaded'
            /\ (FetchFailed(t) /\ pc'[t] # "idle") => pc'[t] = "list"]_vars

\* Unpacking failed half way, and the retry has sent its own listing request.
C5_Witness ==
    /\ failedFetches = 1
    /\ listCalls = 2
    /\ pc[MainThread] = "select"
    /\ \E k \in Keys, u \in 1..MaxArtifacts : <<k, u>> \in dir.files
    /\ ~downloaded

\* ------------------------------------------------------------------ C6
\* C6: callers that read concurrently before the first successful fetch see
\* one listing request, one download request and one extraction: as long as no
\* attempt has failed, no request is sent twice and the archive is unpacked
\* once, and no two callers are inside _fetch_artifact's download-and-extract
\* sequence together.
C6_SingleFlight ==
    /\ failedFetches = 0 =>
            listCalls <= 1 /\ downloadCalls <= 1 /\ unpackCalls <= 1
    /\ \A t1, t2 \in Threads :
            (pc[t1] \in InFetchArtifact /\ pc[t2] \in InFetchArtifact) => t1 = t2

\* ------------------------------------------------------------------ C7
\* C7: after a failed fetch attempt the directory self.path is as the call
\* found it: not newly created, and holding no member of the archive.
C7_FailedFetchLeavesDirectory ==
    \A t \in Threads : FetchFailed(t) => dir = dirAtCall[t]

\* ------------------------------------------------------------------ C8
\* C8: when the listing request succeeds and the call fails without sending a
\* download request (no descriptor is named artifact_name), the error is an
\* ArtifactNotFoundError and the directory is untouched.
C8_NoMatchRaisesArtifactNotFound ==
    \A t \in Threads :
        (/\ FetchFailed(t)
         /\ lastReq[t].endpoint = "artifacts"
         /\ lastReq[t].connected
         /\ Success(lastReq[t].status)) =>
            /\ IsArtifactNotFoundError(result[t].error)
            /\ dir = dirAtCall[t]

\* ------------------------------------------------------------------ C9
\* Position i holds a descriptor named `name` whose created_at no other
\* descriptor of that name exceeds, and which comes last among those that
\* equal it.
IsLatestMatch(as, name, i) ==
    /\ i \in DOMAIN as
    /\ as[i].name = name
    /\ \A j \in DOMAIN as :
        as[j].name = name =>
            \/ as[j].created_at < as[i].created_at
            \/ as[j].created_at = as[i].created_at /\ j <= i

\* C9: the selected descriptor is named artifact_name, has the greatest
\* created_at among the descriptors of that name and, among those that share
\* it, the last position in the listing; it is the one whose
\* archive_download_url the download request goes to.
C9_SelectsLatestMatch ==
    /\ [](\A t \in Threads :
            /\ pc[t] = "tempfile" =>
                \E i \in DOMAIN artifacts[t] :
                    /\ IsLatestMatch(artifacts[t], artifact_name, i)
                    /\ artifact[t] = artifacts[t][i]
            /\ pc[t] = "write" =>
                \E r \in sent :
                    /\ r.endpoint = "archive"
                    /\ r.url = artifact[t].archive_download_url)
    /\ [][\A t \in Threads :
            (\/ pc[t] = "tempfile" /\ pc'[t] = "download"
             \/ pc[t] = "download" /\ pc'[t] = "write") =>
                /\ artifact'[t] = artifact[t]
                /\ \A r \in sent' \ sent :
                    r.url = artifact[t].archive_download_url]_vars

\* Two descriptors of the right name tie and a newer one has another name: the
\* second of the two is selected.
C9_Witness ==
    /\ pc[MainThread] = "tempfile"
    /\ artifacts[MainThread] =
            <<Descriptor(DefaultArtifactName, 1, 1),
              Descriptor(DefaultArtifactName, 1, 2),
              Descriptor("other", 2, 3)>>
    /\ artifact[MainThread] = Descriptor(DefaultArtifactName, 1, 2)

\* ----------------------------------------------------------------- C10
\* C10: a fetch call whose last request was the listing request and got no
\* HTTP response raises the RuntimeError of the could-not-connect message,
\* and one that got a non-2xx response raises the RuntimeError of the
\* check-repository-and-token message; the call sent no download request.
C10_ListingFailureClassified ==
    /\ [](\A t \in Threads :
            (FetchFailed(t) /\ lastReq[t].endpoint = "artifacts") =>
                /\ ~lastReq[t].connected =>
                        IsRemoteUnavailableError(result[t].error, MsgListConnect)
                /\ (lastReq[t].connected /\ ~Success(lastReq[t].status)) =>
                        IsRemoteRequestError(result[t].error, MsgListHTTP))
    /\ [][\A t \in Threads :
            (pc[t] = "list" /\ pc'[t] = "idle") =>
                /\ downloadCalls' = downloadCalls
                /\ \A r \in sent' \ sent : r.endpoint = "artifacts"]_vars

\* A listing request was refused with 404; it was the second attempt to fail.
C10_Witness ==
    /\ FetchFailed(MainThread)
    /\ lastReq[MainThread] = Response("artifacts", 404)
    /\ failedFetches = 2
    /\ downloadCalls = 0

\* ----------------------------------------------------------------- C11
\* C11: a fetch call whose download request got no HTTP response raises the
\* RuntimeError of the could-not-connect-to-download message, and one whose
\* download request got a non-2xx response raises the RuntimeError of the
\* could-not-get-the-artifact message; afterwards the call's temporary file is
\* gone and the directory self.path is as the call found it.
C11_DownloadFailureClassified ==
    \A t \in Threads :
        (/\ FetchFailed(t)
         /\ lastReq[t].endpoint = "archive"
         /\ ~(lastReq[t].connected /\ Success(lastReq[t].status))) =>
            /\ ~lastReq[t].connected =>
                    IsRemoteUnavailableError(result[t].error, MsgDownloadConnect)
            /\ lastReq[t].connected =>
                    IsRemoteRequestError(result[t].error, MsgDownloadHTTP)
            /\ ~tmp[t].exists
            /\ dir = dirAtCall[t]

\* The download request was answered with 500 where no directory existed.
C11_Witness ==
    /\ FetchFailed(MainThread)
    /\ lastReq[MainThread] = Response("archive", 500)
    /\ dir = NoDir
    /\ downloadCalls = 1

\* ----------------------------------------------------------------- C12
\* C12: a caller has a temporary file only between the opening of the with
\* block and its end: outside _fetch_artifact, before line 105 and after line
\* 132 there is none, however the attempt ended.
C12_TempFileScoped ==
    \A t \in Threads :
        pc[t] \in {"idle", "list", "select", "tempfile", "reinit", "setflag",
                   "delegate"} => ~tmp[t].exists

\* Unpacking failed after the archive had been written to the temporary file.
C12_Witness ==
    /\ FetchFailed(MainThread)
    /\ result[MainThread].error.cls = "ReadError"
    /\ unpackCalls = 1
    /\ ~tmp[MainThread].exists

\* ----------------------------------------------------------------- C13
\* A DirectoryBasedExampleDatabase constructed over the directory as it is now.
FreshLocalStore == [key \in FetchKeys |-> LocalStoreFetch(dir, key)]

\* C13: what fetch(key) returned is what a Local Store freshly constructed
\* over self.path returns for that key (the delegate being rooted there); for a
\* key that is not in the directory that is the empty collection, not an error.
C13_ReadDelegatesToLocalStore ==
    \A t \in Threads :
        (pc[t] = "idle" /\ result[t].kind = "returned") =>
            /\ delegate = LocalPath
            /\ result[t].value = FreshLocalStore[result[t].key]
            /\ (\A f \in dir.files : f[1] # result[t].key) => result[t].value = {}

\* After a fetch into a directory that held an older file for key 1, a read of
\* key 1 returned the old and the new value.
C13_Witness ==
    /\ downloaded
    /\ pc[MainThread] = "idle"
    /\ result[MainThread].kind = "returned"
    /\ result[MainThread].key = 1
    /\ Cardinality(result[MainThread].value) = 2

\* ----------------------------------------------------------------- C14
\* C14: every request ever sent is a GET, either to the artifact listing
\* endpoint or to an archive URL; a request to an archive URL is sent only by a
\* caller at its download request, to the archive_download_url of the
\* descriptor it selected; save, move, delete and __repr__ send nothing.
C14_OnlyReadRequests ==
    /\ [](\A r \in sent :
            /\ r.method = "GET"
            /\ r.endpoint \in {"artifacts", "archive"})
    /\ [][\A r \in sent' \ sent :
            \E t \in Threads :
                \/ pc[t] = "list" /\ r.endpoint = "artifacts"
                \/ /\ pc[t] = "download"
                   /\ r.endpoint = "archive"
                   /\ r.url = artifact[t].archive_download_url]_vars

\* Both kinds of request have gone out and a save was refused afterwards.
C14_Witness ==
    /\ \E r \in sent : r.endpoint = "artifacts"
    /\ \E r \in sent : r.endpoint = "archive"
    /\ RaisedReadOnly(result[MainThread])

\* ----------------------------------------------------------------- C15
\* C15: __repr__ can be called in every state in which the caller is outside
\* the object; it returns the text naming owner, repo and artifact_name, sends
\* no request, touches no file, does not start _fetch_artifact and leaves
\* downloaded, the configuration and the delegate as they were.
C15_ReprHasNoSideEffects ==
    /\ [](\A t \in Threads : pc[t] = "idle" => ENABLED Repr(t))
    /\ [][\A t \in Threads :
            Repr(t) =>
                /\ result'[t] = [kind |-> "repr", text |-> ReprText]
                /\ UNCHANGED <<network, filesystem, cacheState, pc, locals>>]_vars

\* __repr__ was called before any fetch: nothing has been requested or created.
C15_Witness ==
    /\ result[MainThread].kind = "repr"
    /\ ~downloaded
    /\ listCalls = 0
    /\ sent = {}
    /\ dir = NoDir

\* ----------------------------------------------------------------- C16
CarriesAuthorization(r) == "Authorization" \in DOMAIN r.headers

\* C16: a request carries an Authorization header exactly when a token is
\* configured, and then it is the bearer form of that token.
C16_AuthorizationOnlyWithToken ==
    \A r \in sent :
        /\ CarriesAuthorization(r) <=> token # None
        /\ token # None => r.headers.Authorization = <<"Bearer", token>>

\* ----------------------------------------------------------------- C17
\* C17: a download request carries the headers of the listing request: the
\* same Accept, X-GitHub-Api-Version and Authorization values.
C17_SameHeaders ==
    \A l \in sent, d \in sent :
        (l.endpoint = "artifacts" /\ d.endpoint = "archive") =>
            /\ l.headers.Accept = d.headers.Accept
            /\ l.headers.Version = d.headers.Version
            /\ l.headers.Authorization = d.headers.Authorization

\* ----------------------------------------------------------------- C18
\* The order of the statements of one fetch call; from each statement of
\* _fetch_artifact that can raise, the call may also end.
StepOrder ==
    {<<"idle", "list">>, <<"idle", "delegate">>, <<"list", "select">>,
     <<"select", "tempfile">>, <<"tempfile", "download">>,
     <<"download", "write">>, <<"write", "mkdir">>, <<"mkdir", "unpack">>,
     <<"unpack", "reinit">>, <<"reinit", "setflag">>, <<"setflag", "delegate">>,
     <<"delegate", "idle">>}
        \cup { <<p, "idle">> : p \in {"list", "select", "download", "write",
                                      "mkdir", "unpack", "reinit"} }

FullyUnpacked(url) == Extracted(url, NKeys) \subseteq dir.files

\* C18: a caller moves through listing, selection, temporary file, download,
\* write, mkdir_p, unpack, re-initialisation and the flag in that order, and
\* is at a statement only with the results of the earlier ones in hand;
\* downloaded is true only when an archive has been unpacked completely and
\* the delegate is rooted at self.path.
C18_StepsInOrder ==
    /\ [](\A t \in Threads :
            /\ pc[t] = "select" =>
                    lastReq[t].endpoint = "artifacts" /\ Success(lastReq[t].status)
            /\ pc[t] \in {"tempfile", "download"} =>
                    /\ artifact[t] # NoArtifact
                    /\ lastReq[t].endpoint = "artifacts"
            /\ pc[t] \in {"write", "mkdir", "unpack"} =>
                    lastReq[t].endpoint = "archive" /\ Success(lastReq[t].status)
            /\ pc[t] \in {"mkdir", "unpack"} =>
                    tmp[t] = TmpFile(artifact[t].archive_download_url)
            /\ pc[t] = "unpack" => dir.exists
            /\ pc[t] \in {"reinit", "setflag"} =>
                    FullyUnpacked(artifact[t].archive_download_url)
            /\ pc[t] = "setflag" => delegate = LocalPath)
    /\ [](downloaded =>
            /\ delegate = LocalPath
            /\ \E u \in 1..MaxArtifacts : FullyUnpacked(u))
    /\ [][\A t \in Threads :
            /\ pc'[t] # pc[t] => <<pc[t], pc'[t]>> \in StepOrder
            /\ (pc[t] \in InFetchArtifact /\ pc'[t] = "idle") =>
                    result'[t].kind = "raised"]_vars

\* The last statement of a fetch is about to run, on a retry.
C18_Witness ==
    /\ pc[MainThread] = "setflag"
    /\ ~downloaded
    /\ delegate = LocalPath
    /\ failedFetches = 1

\* ----------------------------------------------------------------- C19
\* C19: the delegate's fetch is reached, and a value handed to a caller, only
\* with downloaded true and the delegate rooted at self.path; as long as no
\* fetch has succeeded no caller has been given a value, whatever the
\* directory already holds.
C19_ReadsOnlyWhenMaterialised ==
    \A t \in Threads :
        (pc[t] = "delegate" \/ result[t].kind = "returned") =>
            downloaded /\ delegate = LocalPath

\* A fetch failed over a directory that already held a file: nothing was
\* returned.
C19_Witness ==
    /\ FetchFailed(MainThread)
    /\ StaleEntry \in dir.files
    /\ ~downloaded

=============================================================================
